---- MODULE Spec2Model ----
(***************************************************************************)
(* Model of watch.py: the debounced event handler MDHandler, the mirror    *)
(* operations it applies, the atomic index writer write_index, the         *)
(* retrying copier copy_file_with_retry and the startup sequence of main.  *)
(*                                                                         *)
(* Threads: the observer thread (delivers raw events to on_created,        *)
(* on_modified, on_deleted, on_moved), and one thread per threading.Timer  *)
(* (runs _process_pending once its delay has elapsed and it was not        *)
(* cancelled before).  Time is counted in ticks of one debounce delay.     *)
(***************************************************************************)
EXTENDS Integers, Sequences, FiniteSets, TLC

\* ------------------------------------------------------------------ bounds

\* Number of file-system changes the environment performs in one behaviour.
MaxEvents == 2
\* Capacity of the observer's queue of raw, not yet dispatched events.
MaxQueue == 1
\* Number of timers one behaviour can create (one per accepted event).
MaxTimers == 3

\* --------------------------------------------------------- program constants

\* DEBOUNCE_SECONDS, in ticks (one tick is one second).
DEBOUNCE_SECONDS == 1

\* The default of copy_file_with_retry's parameter `retries`.
COPY_RETRY_ATTEMPTS == 5

\* ------------------------------------------------------------------- paths
\* A path is the tuple of its parts relative to the watched root.

PathA == <<"a", "x.md">>
PathB == <<"a", "w.md">>
PathH == <<".hidden", "y.md">>
PathZ == <<"a", "z.txt">>
\* A .md file under a directory of the skip set.
PathS == <<"node_modules", "x.md">>

\* The name of the mirror directory, which lies directly under the watched
\* root (the default of --mirror-to is ./md, of watch_dir the current
\* directory).
MirrorPart == "<mirror>"

\* A .md file that another process keeps in the mirror directory.
PathM == <<MirrorPart, "x.md">>

Paths == {PathA, PathB, PathH, PathZ, PathS, PathM}

\* The watched tree when the handler is constructed (section 8 of the
\* specification: a/x.md, .hidden/y.md, a/z.txt).
InitialTree == {PathA, PathH, PathZ}

None == <<>>

\* str.startswith / str.endswith on the names that occur in Paths.
EndsWithMd(name) == name \in {"x.md", "w.md", "y.md"}
StartsWithDot(name) == name \in {".hidden", ".git", ".venv", ".claude"}
StartsWithClaude(name) == name \in {".claude"}

SKIP_DIRS == {"__pycache__", ".git", ".venv", "node_modules"}

\* --help default: no depth limit.
max_depth == None

\* A descent rule without the skip set.
should_include_dir_hidden_only(dirname) ==
    IF StartsWithClaude(dirname) THEN TRUE
    ELSE IF StartsWithDot(dirname) THEN FALSE
    ELSE TRUE

should_include_dir(dirname) ==
    IF dirname \in SKIP_DIRS THEN FALSE
    ELSE IF StartsWithClaude(dirname) THEN TRUE
    ELSE IF StartsWithDot(dirname) THEN FALSE
    ELSE TRUE

should_include_path(rel) ==
    \A i \in 1..(Len(rel) - 1) :
        ~(StartsWithDot(rel[i]) /\ ~StartsWithClaude(rel[i]))

is_md_file(path) == Len(path) > 0 /\ EndsWithMd(path[Len(path)])

\* Path.relative_to(self.root): every path of the model is under the root.
get_rel_path(path) == IF path \in Paths THEN path ELSE None

InsideMirror(path) == Len(path) > 0 /\ path[1] = MirrorPart

\* MDHandler._should_handle, for a configured mirror or none.
should_handle(path, mirrorOn) ==
    IF ~is_md_file(path) THEN FALSE
    ELSE IF mirrorOn /\ InsideMirror(path) THEN FALSE
    ELSE get_rel_path(path) # None /\ should_include_path(get_rel_path(path))

\* walk_md_files(root, max_depth, exclude_dir) over the set `files` of
\* relative paths that exist under `root`: the paths it yields.  exclude_dir
\* is TRUE when the mirror directory is passed as exclude_dir.
walk_md_files(files, exclude_dir) ==
    { p \in files :
        /\ ~(exclude_dir /\ InsideMirror(p))
        /\ \A i \in 1..(Len(p) - 1) : should_include_dir(p[i])
        /\ (max_depth = None \/ Len(p) - 1 < max_depth[1])
        /\ is_md_file(p)
        /\ should_include_path(p) }

\* Paths in the order of their posix strings
\* (".hidden/y.md" < "<mirror>/x.md" < "a/w.md" < "a/x.md" < "a/z.txt"
\* < "node_modules/x.md").
PosixOrder == <<PathH, PathM, PathB, PathA, PathZ, PathS>>

\* build_index: the sorted list of the posix strings of the yielded paths.
build_index(files, exclude_dir) ==
    LET yielded == walk_md_files(files, exclude_dir)
        Keep(p) == p \in yielded
    IN  SelectSeq(PosixOrder, Keep)

\* The directories os.walk lists below a root that holds `files`, the root
\* itself (".") among them.
RootDir == "."
Dirs(files) == {RootDir} \cup {p[1] : p \in {q \in files : Len(q) > 1}}

\* The files os.walk sees when its scandir of directory d fails: os.walk is
\* called without onerror, so the error is dropped and the walk goes on
\* without the directory.
Listable(files, d) ==
    IF d = RootDir THEN {} ELSE {p \in files : Len(p) = 1 \/ p[1] # d}

\* The lists build_index can return for a root that holds `files`: the list
\* of a complete walk, or one of a walk that lost paths because a directory
\* (or the root) could not be listed.
Scans(files, exclude_dir) ==
    LET full == build_index(files, exclude_dir)
    IN  {[paths |-> full, kind |-> "complete"]} \cup
        {[paths |-> build_index(Listable(files, d), exclude_dir), kind |-> "partial"] :
            d \in {e \in Dirs(files) :
                      build_index(Listable(files, e), exclude_dir) # full}}

\* ------------------------------------------------------------ index files
\* The content of a file: absent, empty (opened for writing, nothing written
\* yet), a complete serialization of a list of paths, or garbled (a prefix
\* of one serialization, or bytes of two).

Absent == [kind |-> "absent", paths |-> <<>>]
Empty == [kind |-> "empty", paths |-> <<>>]
Garbled == [kind |-> "garbled", paths |-> <<>>]
Doc(md_paths) == [kind |-> "doc", paths |-> md_paths]

StrLen(name) ==
    CASE name = "a" -> 1
      [] name \in {"x.md", "w.md", "y.md"} -> 4
      [] name = "z.txt" -> 5
      [] name = ".hidden" -> 7
      [] name = "node_modules" -> 12
      [] OTHER -> 8

RECURSIVE PosixLen(_)
PosixLen(p) ==
    IF p = <<>> THEN 0
    ELSE StrLen(Head(p)) + (IF Len(p) > 1 THEN 1 ELSE 0) + PosixLen(Tail(p))

RECURSIVE ItemsLen(_)
ItemsLen(md_paths) ==
    IF md_paths = <<>> THEN 0
    ELSE 4 + PosixLen(Head(md_paths))
         + (IF Len(md_paths) > 1 THEN 2 ELSE 0) + ItemsLen(Tail(md_paths))

\* len(json.dumps(md_paths, indent=2, ensure_ascii=False))
JsonLen(md_paths) ==
    IF md_paths = <<>> THEN 2 ELSE 2 + ItemsLen(md_paths) + 2

\* What a file that holds `content` can hold after the bytes of
\* json.dumps(md_paths) were written at offset 0 through a descriptor that
\* was opened before `content` was written.
WriteOutcomes(content, md_paths) ==
    CASE content.kind = "empty" -> {Doc(md_paths)}
      [] content.kind = "doc" ->
            IF JsonLen(md_paths) >= JsonLen(content.paths)
            THEN {Doc(md_paths)} ELSE {Garbled}
      [] OTHER -> {Doc(md_paths), Garbled}

\* ------------------------------------------------------------------- state

Timers == 1..MaxTimers
ObsThread == 0 - 1
NoThread == 0

VARIABLES
    srcFiles,        \* relative paths of the files in the watched tree
    mirror,          \* relative paths of the entries of the mirror directory
    rawQueue,        \* raw events not yet dispatched to the handler
    nOps,            \* file-system changes performed so far
    mirror_to,       \* self.mirror_to is set (a mirror is configured)
    pending,         \* self._pending_events, in insertion order
    debounce_timer,  \* self._debounce_timer (0: None)
    lock,            \* holder of self._lock
    opc,             \* observer thread: position in the event callback
    oargs,           \* observer thread: arguments of _queue_event
    tstate,          \* per timer: state of the timer and of its callback
    ttl,             \* per timer: ticks left before it expires
    events,          \* per callback: the drained batch (local `events`)
    log,             \* per callback: outcome of each applied action
    nBatches,        \* non-empty batches drained so far
    nRebuilds,       \* calls of write_index so far
    nCopy,           \* per path: calls of copy_file_with_retry for it so far
    accepted,        \* keys of the events accepted so far
    md_paths,        \* per callback: the list built by build_index
    fd,              \* per callback: where its open temp-file descriptor points
    tmpFile,         \* content of out_path + ".tmp"
    outFile,         \* content of out_path
    sinceLast,       \* ticks since the last accepted event arrived
    burst,           \* every accepted event so far was part of one Modified burst
    idx_result,      \* how the last call of write_index that ended, ended
    scan,            \* per callback: whether its walk of the index root was complete
    mirror_failed,   \* a copy into the mirror or a removal from it failed so far
    session,         \* main thread: the phase of the session
    prune,           \* args.prune
    root_exists,     \* the watched root is an existing directory
    sync_todo,       \* initial_sync: the steps it has yet to do
    start_mirror,    \* the entries of the mirror when the session started
    cp               \* one call of copy_file_with_retry: its inputs and position

vars == <<srcFiles, mirror, rawQueue, nOps, mirror_to, pending, debounce_timer,
          lock, opc, oargs, tstate, ttl, events, log, md_paths, fd,
          tmpFile, outFile, sinceLast, burst, idx_result,
          nBatches, nRebuilds, nCopy, accepted, scan, mirror_failed,
          session, prune, root_exists, sync_todo, start_mirror, cp>>

envVars == <<srcFiles, rawQueue, nOps>>
handlerVars == <<pending, debounce_timer>>
obsVars == <<opc, oargs>>
batchVars == <<events, log>>
indexVars == <<md_paths, fd, tmpFile, outFile, idx_result, scan>>
histVars == <<sinceLast, burst, accepted>>
countVars == <<nBatches, nRebuilds, nCopy, mirror_failed>>
startVars == <<mirror_to, session, prune, root_exists, sync_todo, start_mirror, cp>>

NoArgs == [type |-> "none", src |-> None, dest |-> None]

\* No call of copy_file_with_retry is followed step by step.
NoCopy == [mkdir |-> TRUE, conds |-> <<>>, attempt |-> 0, result |-> "none"]
Call(type, src, dest) == [type |-> type, src |-> src, dest |-> dest]

\* MDHandler.__init__, and the threads and counters at their start.
HandlerInit ==
    /\ rawQueue = <<>>
    /\ nOps = 0
    /\ pending = <<>>
    /\ debounce_timer = 0
    /\ lock = NoThread
    /\ opc = "idle"
    /\ oargs = NoArgs
    /\ tstate = [t \in Timers |-> "new"]
    /\ ttl = [t \in Timers |-> 0]
    /\ events = [t \in Timers |-> <<>>]
    /\ log = [t \in Timers |-> <<>>]
    /\ md_paths = [t \in Timers |-> <<>>]
    /\ fd = [t \in Timers |-> "none"]
    /\ tmpFile = Absent
    /\ sinceLast = DEBOUNCE_SECONDS
    /\ burst = TRUE
    /\ nBatches = 0
    /\ nRebuilds = 0
    /\ nCopy = [p \in Paths |-> 0]
    /\ accepted = {}
    /\ scan = [t \in Timers |-> "none"]
    /\ mirror_failed = FALSE

\* The session is live after a startup without failures: initial_sync copied
\* every file its walk yields into an empty mirror and run_watcher wrote the
\* initial index before it built the handler.
InitWith(tree, mirrorOn) ==
    /\ srcFiles = tree
    /\ mirror_to = mirrorOn
    /\ mirror = IF mirrorOn THEN walk_md_files(tree, TRUE) ELSE {}
    /\ outFile = Doc(build_index(IF mirrorOn THEN walk_md_files(tree, TRUE)
                                  ELSE tree, FALSE))
    /\ idx_result = "ok"
    /\ session = "Live"
    /\ prune = FALSE
    /\ root_exists = TRUE
    /\ sync_todo = <<>>
    /\ start_mirror = {}
    /\ HandlerInit

Init == (\E mirrorOn \in BOOLEAN : InitWith(InitialTree, mirrorOn)) /\ cp = NoCopy

\* ------------------------------------------------------------- environment
\* The file-system changes of other processes.  The watch collaborator
\* queues one raw event per change.

RawEvent(kind, src, dest) == [kind |-> kind, src |-> src, dest |-> dest]

CanChange(limit) == nOps < limit /\ Len(rawQueue) < MaxQueue

Emit(ev) ==
    /\ rawQueue' = Append(rawQueue, ev)
    /\ nOps' = nOps + 1

FsCreate(p) ==
    /\ CanChange(MaxEvents)
    /\ p \notin srcFiles
    /\ srcFiles' = srcFiles \cup {p}
    /\ Emit(RawEvent("created", p, None))
    /\ UNCHANGED <<mirror, startVars, handlerVars, lock, obsVars, tstate, ttl,
                   batchVars, indexVars, histVars, countVars>>

Modify(p, limit) ==
    /\ CanChange(limit)
    /\ p \in srcFiles
    /\ srcFiles' = srcFiles
    /\ Emit(RawEvent("modified", p, None))
    /\ UNCHANGED <<mirror, startVars, handlerVars, lock, obsVars, tstate, ttl,
                   batchVars, indexVars, histVars, countVars>>

FsModify(p) == Modify(p, MaxEvents)

\* A burst of writes to the tracked files.
BurstModify(p) == should_handle(p, mirror_to) /\ Modify(p, MaxTimers)

FsDelete(p) ==
    /\ CanChange(MaxEvents)
    /\ p \in srcFiles
    /\ srcFiles' = srcFiles \ {p}
    /\ Emit(RawEvent("deleted", p, None))
    /\ UNCHANGED <<mirror, startVars, handlerVars, lock, obsVars, tstate, ttl,
                   batchVars, indexVars, histVars, countVars>>

FsMove(p, q) ==
    /\ CanChange(MaxEvents)
    /\ p \in srcFiles
    /\ q # p
    /\ srcFiles' = (srcFiles \ {p}) \cup {q}
    /\ Emit(RawEvent("moved", p, q))
    /\ UNCHANGED <<mirror, startVars, handlerVars, lock, obsVars, tstate, ttl,
                   batchVars, indexVars, histVars, countVars>>

\* One tick of time passes: armed timers come closer to expiry.
Tick ==
    /\ \/ sinceLast < DEBOUNCE_SECONDS
       \/ \E t \in Timers : tstate[t] = "armed" /\ ttl[t] > 0
    /\ ttl' = [t \in Timers |->
                 IF tstate[t] = "armed" /\ ttl[t] > 0 THEN ttl[t] - 1 ELSE ttl[t]]
    /\ sinceLast' = IF sinceLast < DEBOUNCE_SECONDS THEN sinceLast + 1 ELSE sinceLast
    /\ UNCHANGED <<envVars, mirror, startVars, handlerVars, lock, obsVars, tstate,
                   batchVars, indexVars, burst, accepted, countVars>>

\* ----------------------------------------------------- event callbacks
\* The call of _queue_event an event callback makes for a raw event
\* (NoArgs: none).

on_created(ev, mirrorOn) ==
    IF should_handle(ev.src, mirrorOn) THEN Call("created", ev.src, None) ELSE NoArgs

on_modified(ev, mirrorOn) ==
    IF should_handle(ev.src, mirrorOn) THEN Call("modified", ev.src, None) ELSE NoArgs

on_deleted(ev) ==
    IF is_md_file(ev.src) /\ get_rel_path(ev.src) # None
    THEN Call("deleted", ev.src, None) ELSE NoArgs

on_moved(ev, mirrorOn) ==
    LET src_is_md == is_md_file(ev.src)
        dest_is_md == is_md_file(ev.dest)
    IN  IF src_is_md /\ ~dest_is_md
        THEN IF get_rel_path(ev.src) # None
             THEN Call("deleted", ev.src, None) ELSE NoArgs
        ELSE IF ~src_is_md /\ dest_is_md
        THEN IF should_handle(ev.dest, mirrorOn)
             THEN Call("created", ev.dest, None) ELSE NoArgs
        ELSE IF src_is_md /\ dest_is_md
        THEN Call("moved", ev.src, ev.dest)
        ELSE NoArgs

Callback(ev, mirrorOn) ==
    CASE ev.kind = "created" -> on_created(ev, mirrorOn)
      [] ev.kind = "modified" -> on_modified(ev, mirrorOn)
      [] ev.kind = "deleted" -> on_deleted(ev)
      [] OTHER -> on_moved(ev, mirrorOn)

\* The observer thread takes the next raw event and runs its callback up to
\* the call of _queue_event.
Dispatch ==
    /\ opc = "idle"
    /\ rawQueue # <<>>
    /\ LET call == Callback(Head(rawQueue), mirror_to)
       IN  /\ rawQueue' = Tail(rawQueue)
           /\ IF call = NoArgs
              THEN UNCHANGED <<obsVars, histVars>>
              ELSE /\ opc' = "queue_wait"
                   /\ oargs' = call
                   /\ sinceLast' = 0
                   /\ burst' = (/\ burst
                                /\ call.type = "modified"
                                /\ accepted = {} \/ sinceLast < DEBOUNCE_SECONDS)
                   /\ accepted' = accepted \cup {call.src}
    /\ UNCHANGED <<srcFiles, nOps, mirror, startVars, handlerVars, lock, tstate, ttl,
                   batchVars, indexVars, countVars>>

\* ------------------------------------------------------ pending events
\* self._pending_events is a dict: a sequence of items with distinct keys,
\* in insertion order.

Item(key, type, dest) == [key |-> key, type |-> type, dest |-> dest]

HasKey(d, key) == \E i \in 1..Len(d) : d[i].key = key

\* d[key], for a key of d
DictGet(d, key) == d[CHOOSE i \in 1..Len(d) : d[i].key = key]

\* d[key] = (type, dest)
DictSet(d, key, type, dest) ==
    IF HasKey(d, key)
    THEN [i \in 1..Len(d) |->
            IF d[i].key = key THEN Item(key, type, dest) ELSE d[i]]
    ELSE Append(d, Item(key, type, dest))

\* A reducer without the Deleted-then-Created collapse.
queue_event_overwrite(d, event_type, src_path, dest_path) ==
    DictSet(d, src_path, event_type, dest_path)

\* The body of `with self._lock` in _queue_event.
queue_event(d, event_type, src_path, dest_path) ==
    LET existing == HasKey(d, src_path)
        type == IF existing /\ DictGet(d, src_path).type = "deleted"
                   /\ event_type = "created"
                THEN "modified" ELSE event_type
    IN  DictSet(d, src_path, type, dest_path)

QueueAcquire ==
    /\ opc = "queue_wait"
    /\ lock = NoThread
    /\ lock' = ObsThread
    /\ opc' = "queue_held"
    /\ UNCHANGED <<envVars, mirror, startVars, handlerVars, oargs, tstate, ttl,
                   batchVars, indexVars, histVars, countVars>>

QueueEvent ==
    /\ opc = "queue_held"
    /\ pending' = queue_event(pending, oargs.type, oargs.src, oargs.dest)
    /\ lock' = NoThread
    /\ opc' = "schedule_wait"
    /\ UNCHANGED <<envVars, mirror, startVars, debounce_timer, oargs, tstate, ttl,
                   batchVars, indexVars, histVars, countVars>>

\* ------------------------------------------------------ debounce timer

\* threading.Timer.cancel(): a timer that has not expired will not run its
\* function; one whose function already started is not affected.
Cancel(ts, t) ==
    IF t # 0 /\ ts[t] = "armed" THEN [ts EXCEPT ![t] = "finished"] ELSE ts

\* threading.Timer(...): a timer that was not created before.
NewTimer ==
    CHOOSE t \in Timers : tstate[t] = "new" /\ \A u \in 1..(t - 1) : tstate[u] # "new"

ScheduleAcquire ==
    /\ opc = "schedule_wait"
    /\ lock = NoThread
    /\ lock' = ObsThread
    /\ opc' = "schedule_held"
    /\ UNCHANGED <<envVars, mirror, startVars, handlerVars, oargs, tstate, ttl,
                   batchVars, indexVars, histVars, countVars>>

\* The body of `with self._lock` in _schedule_processing.
ScheduleProcessing ==
    /\ opc = "schedule_held"
    /\ LET t == NewTimer
       IN  /\ tstate' = [Cancel(tstate, debounce_timer) EXCEPT ![t] = "armed"]
           /\ ttl' = [t2 \in Timers |->
                        IF t2 = t THEN DEBOUNCE_SECONDS
                        ELSE IF t2 = debounce_timer THEN 0 ELSE ttl[t2]]
           /\ debounce_timer' = t
    /\ lock' = NoThread
    /\ opc' = "idle"
    /\ oargs' = NoArgs
    /\ UNCHANGED <<envVars, mirror, startVars, pending, batchVars, indexVars,
                   histVars, countVars>>

\* The timer's delay has elapsed and it was not cancelled: its thread calls
\* _process_pending.
Fire(t) ==
    /\ tstate[t] = "armed"
    /\ ttl[t] = 0
    /\ tstate' = [tstate EXCEPT ![t] = "drain_wait"]
    /\ UNCHANGED <<envVars, mirror, startVars, handlerVars, lock, obsVars, ttl,
                   batchVars, indexVars, histVars, countVars>>

\* ---------------------------------------------------- _process_pending

DrainAcquire(t) ==
    /\ tstate[t] = "drain_wait"
    /\ lock = NoThread
    /\ lock' = t
    /\ tstate' = [tstate EXCEPT ![t] = "drain_held"]
    /\ UNCHANGED <<envVars, mirror, startVars, handlerVars, obsVars, ttl,
                   batchVars, indexVars, histVars, countVars>>

\* A callback that rebuilds the index after an empty drain too.
AfterDrainAlways(batch, mirrorOn) ==
    IF batch # <<>> /\ mirrorOn THEN "loop" ELSE "index"

\* Where _process_pending goes on after the drain.
AfterDrain(batch, mirrorOn) ==
    IF batch = <<>> THEN "finished"
    ELSE IF mirrorOn THEN "loop"
    ELSE "index"

\* A callback that keeps the lock while it applies its batch.
DrainKeepLock(t) ==
    /\ tstate[t] = "drain_held"
    /\ events' = [events EXCEPT ![t] = pending]
    /\ pending' = <<>>
    /\ debounce_timer' = 0
    /\ lock' = lock
    /\ tstate' = [tstate EXCEPT ![t] = AfterDrain(pending, mirror_to)]
    /\ nBatches' = IF pending = <<>> THEN nBatches ELSE nBatches + 1
    /\ UNCHANGED <<envVars, mirror, startVars, obsVars, ttl, log, indexVars,
                   histVars, nRebuilds, nCopy, mirror_failed>>

\* A callback that takes a copy of the pending map and does not clear it.
DrainKeepPending(t) ==
    /\ tstate[t] = "drain_held"
    /\ events' = [events EXCEPT ![t] = pending]
    /\ pending' = pending
    /\ debounce_timer' = 0
    /\ lock' = NoThread
    /\ tstate' = [tstate EXCEPT ![t] = AfterDrain(pending, mirror_to)]
    /\ nBatches' = IF pending = <<>> THEN nBatches ELSE nBatches + 1
    /\ UNCHANGED <<envVars, mirror, startVars, obsVars, ttl, log, indexVars,
                   histVars, nRebuilds, nCopy, mirror_failed>>

\* The body of `with self._lock` in _process_pending, and the test that
\* follows it.
Drain(t) ==
    /\ tstate[t] = "drain_held"
    /\ events' = [events EXCEPT ![t] = pending]
    /\ pending' = <<>>
    /\ debounce_timer' = 0
    /\ lock' = NoThread
    /\ tstate' = [tstate EXCEPT ![t] = AfterDrain(pending, mirror_to)]
    /\ nBatches' = IF pending = <<>> THEN nBatches ELSE nBatches + 1
    /\ UNCHANGED <<envVars, mirror, startVars, obsVars, ttl, log, indexVars,
                   histVars, nRebuilds, nCopy, mirror_failed>>

\* The item the loop of _process_pending is at.
Current(t) == events[t][Len(log[t]) + 1]

\* A loop in which an exception of one action ends the whole batch.
AfterActionAbort(t, outcome) ==
    IF outcome = "raised" THEN "finished"
    ELSE IF Len(log[t]) + 1 = Len(events[t]) THEN "index" ELSE "loop"

\* Where the loop goes on after an action, whatever its outcome (the
\* try/except lies inside the loop).
AfterAction(t, outcome) ==
    IF Len(log[t]) + 1 = Len(events[t]) THEN "index" ELSE "loop"

Logged(t, outcome) ==
    /\ log' = [log EXCEPT ![t] = Append(@, outcome)]
    /\ tstate' = [tstate EXCEPT ![t] = AfterAction(t, outcome)]

\* A delete that calls unlink without the test of dst.exists().
dst_exists_always(m, src) == TRUE

\* dst.exists() in _mirror_delete: unlink is called, and can raise, only
\* for an entry that is there.
dst_exists(m, src) == get_rel_path(src) \in m

\* A delete that leaves the mirror entry in place.
mirror_delete_skip(m, src) == m

\* _mirror_delete(src): the mirror after it.
mirror_delete(m, src) ==
    IF get_rel_path(src) = None THEN m ELSE m \ {get_rel_path(src)}

\* Results of copy_file_with_retry(src, dst): the copy was made (True), it
\* gave up (False: the source is missing, or unstable or locked on every
\* attempt), or creating the destination's parent directories raised.
CopyResults(src, files) ==
    IF src \in files THEN {"copied", "failed", "raised"} ELSE {"failed", "raised"}

\* _mirror_copy(src): the mirror after it, for a result of the copy.
mirror_copy(m, src, result) ==
    IF get_rel_path(src) = None THEN m
    ELSE IF result = "copied" THEN m \cup {get_rel_path(src)}
    ELSE m

Copied(p, result) ==
    /\ nCopy' = [nCopy EXCEPT ![p] = @ + 1]
    /\ mirror_failed' = (mirror_failed \/ result # "copied")

\* event_type == "deleted": _mirror_delete, whose unlink may raise.
ApplyDelete(t) ==
    /\ tstate[t] = "loop"
    /\ Current(t).type = "deleted"
    /\ \/ /\ mirror' = mirror_delete(mirror, Current(t).key)
          /\ Logged(t, "deleted")
          /\ mirror_failed' = mirror_failed
       \/ /\ dst_exists(mirror, Current(t).key)
          /\ mirror' = mirror
          /\ Logged(t, "raised")
          /\ mirror_failed' = TRUE
    /\ UNCHANGED <<envVars, startVars, handlerVars, lock, obsVars, ttl, events,
                   indexVars, histVars, nBatches, nRebuilds, nCopy>>

\* event_type == "moved": the first half of _mirror_move, _mirror_delete(src)
\* and the test dest.exists().
ApplyMoveDelete(t) ==
    /\ tstate[t] = "loop"
    /\ Current(t).type = "moved"
    /\ Current(t).dest # None
    /\ \/ /\ mirror' = mirror_delete(mirror, Current(t).key)
          /\ IF Current(t).dest \in srcFiles
             THEN /\ tstate' = [tstate EXCEPT ![t] = "move_copy"]
                  /\ log' = log
             ELSE Logged(t, "moved")
          /\ mirror_failed' = mirror_failed
       \/ /\ dst_exists(mirror, Current(t).key)
          /\ mirror' = mirror
          /\ Logged(t, "raised")
          /\ mirror_failed' = TRUE
    /\ UNCHANGED <<envVars, startVars, handlerVars, lock, obsVars, ttl, events,
                   indexVars, histVars, nBatches, nRebuilds, nCopy>>

\* The second half of _mirror_move: _mirror_copy(dest).
ApplyMoveCopy(t) ==
    /\ tstate[t] = "move_copy"
    /\ \E result \in CopyResults(Current(t).dest, srcFiles) :
          /\ mirror' = mirror_copy(mirror, Current(t).dest, result)
          /\ Logged(t, IF result = "raised" THEN "raised"
                       ELSE IF result = "copied" THEN "moved_copied"
                       ELSE "moved")
          /\ Copied(Current(t).dest, result)
    /\ UNCHANGED <<envVars, startVars, handlerVars, lock, obsVars, ttl, events,
                   indexVars, histVars, nBatches, nRebuilds>>

\* Any other event type: success = self._mirror_copy(src).
ApplyCopy(t) ==
    /\ tstate[t] = "loop"
    /\ Current(t).type \in {"created", "modified"}
    /\ \E result \in CopyResults(Current(t).key, srcFiles) :
          /\ mirror' = mirror_copy(mirror, Current(t).key, result)
          /\ Logged(t, result)
          /\ Copied(Current(t).key, result)
    /\ UNCHANGED <<envVars, startVars, handlerVars, lock, obsVars, ttl, events,
                   indexVars, histVars, nBatches, nRebuilds>>

\* ------------------------------------------------------------ write_index

\* The files under self.index_root (main passes the mirror when there is one).
IndexRootFiles == IF mirror_to THEN mirror ELSE srcFiles

\* _process_pending returns: the thread ends and its locals are gone.
Ended(t, result) ==
    /\ tstate' = [tstate EXCEPT ![t] = "finished"]
    /\ idx_result' = result
    /\ md_paths' = [md_paths EXCEPT ![t] = <<>>]
    /\ scan' = [scan EXCEPT ![t] = "none"]
    /\ events' = [events EXCEPT ![t] = <<>>]
    /\ log' = [log EXCEPT ![t] = <<>>]

\* exclude_dir of the handler's call of write_index: the mirror, unless the
\* index root is the mirror itself (it is whenever a mirror is configured).
IndexExclude == FALSE

\* write_index is called: md_paths = build_index(root, max_depth, exclude_dir)
IndexBuild(t) ==
    /\ tstate[t] = "index"
    /\ nRebuilds' = nRebuilds + 1
    /\ \E sc \in Scans(IndexRootFiles, IndexExclude) :
          /\ md_paths' = [md_paths EXCEPT ![t] = sc.paths]
          /\ scan' = [scan EXCEPT ![t] = sc.kind]
    /\ tstate' = [tstate EXCEPT ![t] = "index_open"]
    /\ UNCHANGED <<envVars, mirror, startVars, handlerVars, lock, obsVars, ttl,
                   events, log, fd, tmpFile, outFile, idx_result, histVars,
                   nBatches, nCopy, mirror_failed>>

\* tmp.write_text, first half: the temp file is opened for writing (created
\* or truncated), or the open raises.
IndexOpen(t) ==
    /\ tstate[t] = "index_open"
    /\ \/ /\ tmpFile' = Empty
          /\ fd' = [fd EXCEPT ![t] = "tmp"]
          /\ tstate' = [tstate EXCEPT ![t] = "index_write"]
          /\ UNCHANGED <<md_paths, idx_result, scan, batchVars>>
       \/ /\ UNCHANGED <<tmpFile, fd>>
          /\ Ended(t, "failed")
    /\ outFile' = outFile
    /\ UNCHANGED <<envVars, mirror, startVars, handlerVars, lock, obsVars, ttl,
                   histVars, countVars>>

\* The file a descriptor points at.
Target(f) == IF f = "tmp" THEN tmpFile ELSE IF f = "out" THEN outFile ELSE Empty

\* The files after the descriptor f's file got `content`.
Written(f, content) ==
    /\ tmpFile' = IF f = "tmp" THEN content ELSE tmpFile
    /\ outFile' = IF f = "out" THEN content ELSE outFile

\* tmp.write_text, second half: the serialization is written through the
\* open descriptor and the file is closed; or the write raises, with none or
\* a part of the bytes written.
IndexWrite(t) ==
    /\ tstate[t] = "index_write"
    /\ fd' = [fd EXCEPT ![t] = "none"]
    /\ \/ /\ \E content \in WriteOutcomes(Target(fd[t]), md_paths[t]) :
                Written(fd[t], content)
          /\ tstate' = [tstate EXCEPT ![t] = "index_rename"]
          /\ UNCHANGED <<md_paths, idx_result, scan, batchVars>>
       \/ /\ \E content \in {Target(fd[t]), Garbled} : Written(fd[t], content)
          /\ Ended(t, "failed")
    /\ UNCHANGED <<envVars, mirror, startVars, handlerVars, lock, obsVars, ttl,
                   histVars, countVars>>

\* Where an open descriptor points after the temp file was renamed onto the
\* output path.
Renamed(f) == IF f = "tmp" THEN "out" ELSE IF f = "out" THEN "unlinked" ELSE f

\* tmp.replace(out_path): the rename, or it raises (always when the temp
\* file is missing).
IndexRename(t) ==
    /\ tstate[t] = "index_rename"
    /\ \/ /\ tmpFile # Absent
          /\ outFile' = tmpFile
          /\ tmpFile' = Absent
          /\ fd' = [u \in Timers |-> Renamed(fd[u])]
          /\ Ended(t, IF scan[t] = "partial" THEN "partial" ELSE "ok")
       \/ /\ UNCHANGED <<tmpFile, outFile, fd>>
          /\ Ended(t, "failed")
    /\ UNCHANGED <<envVars, mirror, startVars, handlerVars, lock, obsVars, ttl,
                   histVars, countVars>>

\* ------------------------------------------------------------ specification

Next ==
    \/ \E p \in Paths : FsCreate(p)
    \/ \E p \in Paths : FsModify(p)
    \/ \E p \in Paths : FsDelete(p)
    \/ \E p \in Paths, q \in Paths : FsMove(p, q)
    \/ Tick
    \/ Dispatch
    \/ QueueAcquire
    \/ QueueEvent
    \/ ScheduleAcquire
    \/ ScheduleProcessing
    \/ \E t \in Timers : Fire(t)
    \/ \E t \in Timers : DrainAcquire(t)
    \/ \E t \in Timers : Drain(t)
    \/ \E t \in Timers : ApplyDelete(t)
    \/ \E t \in Timers : ApplyMoveDelete(t)
    \/ \E t \in Timers : ApplyMoveCopy(t)
    \/ \E t \in Timers : ApplyCopy(t)
    \/ \E t \in Timers : IndexBuild(t)
    \/ \E t \in Timers : IndexOpen(t)
    \/ \E t \in Timers : IndexWrite(t)
    \/ \E t \in Timers : IndexRename(t)

Spec == Init /\ [][Next]_vars

\* The steps of the program's own threads (the observer thread and the timer
\* threads) and the passing of time.
Progress ==
    \/ Tick
    \/ Dispatch
    \/ QueueAcquire
    \/ QueueEvent
    \/ ScheduleAcquire
    \/ ScheduleProcessing
    \/ \E t \in Timers : Fire(t)
    \/ \E t \in Timers : DrainAcquire(t)
    \/ \E t \in Timers : Drain(t)
    \/ \E t \in Timers : ApplyDelete(t)
    \/ \E t \in Timers : ApplyMoveDelete(t)
    \/ \E t \in Timers : ApplyMoveCopy(t)
    \/ \E t \in Timers : ApplyCopy(t)
    \/ \E t \in Timers : IndexBuild(t)
    \/ \E t \in Timers : IndexOpen(t)
    \/ \E t \in Timers : IndexWrite(t)
    \/ \E t \in Timers : IndexRename(t)

\* Time passes and the threads are scheduled: as long as one of them can take
\* a step, a step is taken.  The file system changes only finitely often.
SpecFair == Spec /\ WF_vars(Progress)

\* A burst: the tracked files a/x.md and a/w.md exist and are written to
\* repeatedly, with a mirror configured.
InitBurst == InitWith(InitialTree \cup {PathB}, TRUE) /\ cp = NoCopy

NextBurst ==
    \/ \E p \in Paths : BurstModify(p)
    \/ Tick
    \/ Dispatch
    \/ QueueAcquire
    \/ QueueEvent
    \/ ScheduleAcquire
    \/ ScheduleProcessing
    \/ \E t \in Timers : Fire(t)
    \/ \E t \in Timers : DrainAcquire(t)
    \/ \E t \in Timers : Drain(t)
    \/ \E t \in Timers : ApplyCopy(t)
    \/ \E t \in Timers : IndexBuild(t)
    \/ \E t \in Timers : IndexOpen(t)
    \/ \E t \in Timers : IndexWrite(t)
    \/ \E t \in Timers : IndexRename(t)

SpecBurst == InitBurst /\ [][NextBurst]_vars

\* --------------------------------------------------- copy_file_with_retry
\* One call of copy_file_with_retry, step by step.  Its inputs are what the
\* file system answers: whether dst.parent.mkdir succeeds, and for each
\* attempt the condition the source file is in.

\* missing: src.exists() is False.  unstable: the two sizes is_file_stable
\* samples differ.  probe_error: a stat of is_file_stable raises OSError.
\* locked: shutil.copy2 raises PermissionError.  ok: stable and copyable.
Conds == {"missing", "unstable", "probe_error", "locked", "ok"}

CopyCalls ==
    [mkdir : BOOLEAN, conds : [1..COPY_RETRY_ATTEMPTS -> Conds],
     attempt : {0}, result : {"none"}]

\* is_file_stable(src), for a file that exists.
is_file_stable(cond) ==
    IF cond = "probe_error" THEN FALSE     \* except OSError: return False
    ELSE cond # "unstable"                  \* return size1 == size2

\* A copier that reports success although shutil.copy2 raised.
copy_attempt_ignore_lock(cond) ==
    IF cond = "missing" THEN "failed"
    ELSE IF ~is_file_stable(cond) THEN "retry"
    ELSE "copied"

\* A copier for which an unstable probe is a final failure.
copy_attempt_strict(cond) ==
    IF cond = "missing" \/ ~is_file_stable(cond) THEN "failed"
    ELSE IF cond = "locked" THEN "retry"
    ELSE "copied"

\* The body of the loop for one attempt: the function returns False
\* ("failed") or True ("copied"), or the loop goes on ("retry": after
\* `continue`, or after the except clause).
copy_attempt(cond) ==
    IF cond = "missing" THEN "failed"
    ELSE IF ~is_file_stable(cond) THEN "retry"
    ELSE IF cond = "locked" THEN "retry"
    ELSE "copied"

\* dst.parent.mkdir(parents=True, exist_ok=True), before the loop and
\* outside its try: an exception of it leaves the function.
CopyMkdir ==
    /\ cp.conds # <<>>
    /\ cp.attempt = 0
    /\ cp.result = "none"
    /\ cp' = IF cp.mkdir THEN [cp EXCEPT !.attempt = 1]
             ELSE [cp EXCEPT !.result = "raised"]
    /\ UNCHANGED <<envVars, mirror, mirror_to, session, prune, root_exists,
                   sync_todo, start_mirror, handlerVars, lock, obsVars, tstate, ttl,
                   batchVars, indexVars, histVars, countVars>>

\* One iteration of `for attempt in range(retries)`; after the last one the
\* function returns False.
CopyAttempt ==
    /\ cp.attempt \in 1..COPY_RETRY_ATTEMPTS
    /\ cp.result = "none"
    /\ LET outcome == copy_attempt(cp.conds[cp.attempt])
       IN  cp' = IF outcome # "retry" THEN [cp EXCEPT !.result = outcome]
                 ELSE IF cp.attempt < COPY_RETRY_ATTEMPTS
                 THEN [cp EXCEPT !.attempt = @ + 1]
                 ELSE [cp EXCEPT !.result = "failed"]
    /\ UNCHANGED <<envVars, mirror, mirror_to, session, prune, root_exists,
                   sync_todo, start_mirror, handlerVars, lock, obsVars, tstate, ttl,
                   batchVars, indexVars, histVars, countVars>>

InitCopy == InitWith(InitialTree, TRUE) /\ cp \in CopyCalls

NextCopy == CopyMkdir \/ CopyAttempt

SpecCopy == InitCopy /\ [][NextCopy]_vars

\* The thread that runs the call is scheduled again and again, and the
\* sleeps between the attempts end.
SpecCopyFair == SpecCopy /\ WF_vars(NextCopy)

\* ---------------------------------------------------- main / run_watcher
\* The main thread from the test of the watched root to the start of the
\* observer.  No other thread exists before the observer is started, and the
\* watched tree is taken not to change during startup.

configVars == <<mirror_to, prune, root_exists, start_mirror, cp>>
threadVars == <<handlerVars, lock, obsVars, tstate, ttl, batchVars, histVars>>

\* The files under the watched root: the mirror directory lies under it, so
\* its entries are among them.
RootFiles ==
    srcFiles \cup (IF mirror_to THEN {<<MirrorPart>> \o m : m \in mirror} ELSE {})

\* The steps of initial_sync: mirror_to.mkdir (the path of the mirror
\* directory stands for it), then one copy per file that
\* walk_md_files(root, max_depth, exclude_dir=mirror_to) yields.
SyncSteps ==
    LET yielded == walk_md_files(RootFiles, TRUE)
        Keep(p) == p \in yielded
    IN  <<<<MirrorPart>>>> \o SelectSeq(PosixOrder, Keep)

\* root.exists() and root.is_dir(), else sys.exit(2); then run_watcher is
\* entered.
CheckRoot ==
    /\ session = "Initializing"
    /\ IF root_exists
       THEN /\ session' = "InitialSync"
            /\ sync_todo' = IF mirror_to THEN SyncSteps ELSE <<>>
       ELSE /\ session' = "Exited"
            /\ sync_todo' = sync_todo
    /\ UNCHANGED <<envVars, mirror, configVars, threadVars, indexVars, countVars>>

\* initial_sync: mirror_to.mkdir(parents=True, exist_ok=True), or it raises.
InitialSyncMkdir ==
    /\ session = "InitialSync"
    /\ sync_todo # <<>>
    /\ Head(sync_todo) = <<MirrorPart>>
    /\ \/ sync_todo' = Tail(sync_todo) /\ session' = session
       \/ sync_todo' = <<>> /\ session' = "Failed"
    /\ UNCHANGED <<envVars, mirror, configVars, threadVars, indexVars, countVars>>

\* initial_sync: copy_file_with_retry for the next file of the walk; a False
\* counts as skipped, an exception leaves initial_sync and run_watcher.
InitialSyncCopy ==
    /\ session = "InitialSync"
    /\ sync_todo # <<>>
    /\ Head(sync_todo) # <<MirrorPart>>
    /\ \E result \in CopyResults(Head(sync_todo), srcFiles) :
          /\ mirror' = mirror_copy(mirror, Head(sync_todo), result)
          /\ Copied(Head(sync_todo), result)
          /\ IF result = "raised"
             THEN sync_todo' = <<>> /\ session' = "Failed"
             ELSE sync_todo' = Tail(sync_todo) /\ session' = session
    /\ UNCHANGED <<envVars, configVars, threadVars, indexVars, nBatches, nRebuilds>>

\* A startup that attaches the handler right after the initial sync.
AfterSyncSkip(mirrorOn, pruneOn) == "Live"

\* Where run_watcher goes on after the initial sync.
AfterSync(mirrorOn, pruneOn) ==
    IF mirrorOn /\ pruneOn THEN "InitialPrune" ELSE "InitialIndex"

\* initial_sync returned (or there is no mirror and it was not called).
InitialSyncEnd ==
    /\ session = "InitialSync"
    /\ sync_todo = <<>>
    /\ session' = AfterSync(mirror_to, prune)
    /\ UNCHANGED <<envVars, mirror, configVars, sync_todo, threadVars, indexVars,
                   countVars>>

\* prune_mirror: every .md file of the mirror whose relative path the walk
\* of the watched root does not yield is removed, unless its unlink raises
\* OSError.
InitialPrune ==
    /\ session = "InitialPrune"
    /\ LET existing == walk_md_files(RootFiles, TRUE)
           stale == {m \in mirror : is_md_file(m) /\ m \notin existing}
       IN  \E kept \in SUBSET stale : mirror' = mirror \ (stale \ kept)
    /\ session' = "InitialIndex"
    /\ UNCHANGED <<envVars, configVars, sync_todo, threadVars, indexVars, countVars>>

\* The initial write_index(index_root, out_path, ...), which no try guards:
\* it replaces the index document, or it raises and run_watcher ends.
InitialIndex ==
    /\ session = "InitialIndex"
    /\ idx_result = "none"
    /\ \/ \E sc \in Scans(IF mirror_to THEN mirror ELSE srcFiles, IndexExclude) :
             /\ outFile' = Doc(sc.paths)
             /\ idx_result' = IF sc.kind = "partial" THEN "partial" ELSE "ok"
             /\ tmpFile' = Absent
             /\ session' = session
       \/ /\ outFile' = outFile
          /\ idx_result' = "failed"
          /\ tmpFile' \in {tmpFile, Garbled}
          /\ session' = "Failed"
    /\ UNCHANGED <<envVars, mirror, configVars, sync_todo, threadVars, md_paths, fd,
                   scan, countVars>>

\* MDHandler(...), observer.schedule(handler, root), observer.start().
Attach ==
    /\ session = "InitialIndex"
    /\ idx_result \in {"ok", "partial"}
    /\ session' = "Live"
    /\ UNCHANGED <<envVars, mirror, configVars, sync_todo, threadVars, indexVars,
                   countVars>>

\* KeyboardInterrupt in the main loop: obs.stop().
Interrupt ==
    /\ session = "Live"
    /\ session' = "Stopped"
    /\ UNCHANGED <<envVars, mirror, configVars, sync_todo, threadVars, indexVars,
                   countVars>>

\* The process is started: any watched tree, with or without a mirror, which
\* may hold entries of an earlier session, with or without --prune, an
\* index document of an earlier session or none.
InitStartup ==
    /\ root_exists \in BOOLEAN
    /\ srcFiles \in (IF root_exists THEN SUBSET (Paths \ {PathM}) ELSE {{}})
    /\ mirror_to \in BOOLEAN
    /\ mirror \in (IF mirror_to /\ root_exists THEN SUBSET {PathA, PathB} ELSE {{}})
    /\ start_mirror = mirror
    /\ prune \in BOOLEAN
    /\ outFile \in {Absent, Doc(<<PathA>>)}
    /\ idx_result = "none"
    /\ session = "Initializing"
    /\ sync_todo = <<>>
    /\ cp = NoCopy
    /\ HandlerInit

NextStartup ==
    \/ CheckRoot
    \/ InitialSyncMkdir
    \/ InitialSyncCopy
    \/ InitialSyncEnd
    \/ InitialPrune
    \/ InitialIndex
    \/ Attach
    \/ Interrupt

SpecStartup == InitStartup /\ [][NextStartup]_vars

\* ------------------------------------------------------------------ claims

Keys(d) == {d[i].key : i \in 1..Len(d)}
DistinctKeys(d) == \A i, j \in 1..Len(d) : d[i].key = d[j].key => i = j

\* A callback is applying the actions of its batch / is inside write_index.
InBatch(t) == tstate[t] \in {"loop", "move_copy", "index"}
InWriteIndex(t) == tstate[t] \in {"index_open", "index_write", "index_rename"}

\* Nothing is pending, queued or running.
Settled ==
    /\ rawQueue = <<>>
    /\ opc = "idle"
    /\ pending = <<>>
    /\ \A t \in Timers : tstate[t] \in {"new", "finished"}

\* The step in which the observer thread runs the body of _queue_event.
QueueStep == opc = "queue_held" /\ opc' = "schedule_wait"

\* C1: the pending map holds at most one entry per path, and after each
\* accepted event the entry of its path is Modified when the previous pending
\* kind was Deleted and the event is Created, otherwise the kind and
\* destination of the event; the entries of the other paths stay as they are.
C1_CoalescingReducer ==
    /\ [](DistinctKeys(pending))
    /\ [][QueueStep =>
            LET key == oargs.src
                collapse == /\ HasKey(pending, key)
                            /\ DictGet(pending, key).type = "deleted"
                            /\ oargs.type = "created"
            IN  /\ Keys(pending') = Keys(pending) \cup {key}
                /\ DictGet(pending', key).type =
                      (IF collapse THEN "modified" ELSE oargs.type)
                /\ DictGet(pending', key).dest = oargs.dest
                /\ \A k \in Keys(pending) \ {key} :
                      DictGet(pending', k) = DictGet(pending, k)]_vars

\* C1 witness: a Created event has just been merged into a pending Deleted
\* entry, and the entry is Modified.
C1_Witness ==
    /\ opc = "schedule_wait"
    /\ oargs.type = "created"
    /\ HasKey(pending, oargs.src)
    /\ DictGet(pending, oargs.src).type = "modified"

\* C2: a burst of Modified events, each arriving less than the debounce
\* delay after the previous one, results when everything has settled in
\* exactly one drained batch, one copy operation per affected path and one
\* index rebuild.
C2_DebounceCollapse ==
    (burst /\ accepted # {} /\ mirror_to /\ Settled) =>
        /\ nBatches = 1
        /\ nRebuilds = 1
        /\ \A p \in Paths : nCopy[p] = (IF p \in accepted THEN 1 ELSE 0)

\* C3: at most one debounce timer is scheduled and not yet fired or
\* cancelled.
C3_SingleLiveTimer == Cardinality({t \in Timers : tstate[t] = "armed"}) <= 1

\* C4: no two executions of write_index are in progress at the same time.
C4_SerializedRebuilds == Cardinality({t \in Timers : InWriteIndex(t)}) <= 1

\* C5: the document at the output path is absent or the complete
\* serialization written by one rebuild.
C5_ReaderAtomicity == outFile.kind \in {"absent", "doc"}

\* The step in which the write_index of callback t ends with an exception.
IndexFails(t) ==
    InWriteIndex(t) /\ tstate'[t] = "finished" /\ idx_result' = "failed"

\* C6: a rebuild that fails before the rename leaves the output document as
\* it was and does not touch the handler's state, which keeps accepting
\* events; and the batches drained later rebuild again (every non-empty
\* batch that is past its actions has called write_index).
C6_IndexFailureAbsorbed ==
    /\ [][\A t \in Timers : IndexFails(t) =>
            /\ outFile' = outFile
            /\ UNCHANGED <<pending, debounce_timer, lock, opc>>]_vars
    /\ [](nRebuilds + Cardinality({t \in Timers : InBatch(t)}) = nBatches)

\* C7: every drained non-empty batch calls write_index exactly once, and only
\* after every action of the batch has been applied; an empty drain calls
\* it never.
C7_OneRebuildPerBatch ==
    /\ nBatches = nRebuilds + Cardinality({t \in Timers : InBatch(t)})
    /\ \A t \in Timers :
          /\ (InBatch(t) \/ InWriteIndex(t)) => events[t] # <<>>
          /\ (InWriteIndex(t) /\ mirror_to) => Len(log[t]) = Len(events[t])

\* C7 witness: a batch of two actions is inside its one call of write_index.
C7_Witness ==
    \E t \in Timers :
        /\ InWriteIndex(t)
        /\ Len(events[t]) = 2
        /\ Len(log[t]) = 2
        /\ nBatches = 1
        /\ nRebuilds = 1

Failure(outcome) == outcome \in {"failed", "raised"}

\* C8: the failure of one action (False returned, or an exception) does not
\* keep the loop from applying the actions that follow it, one by one and
\* in order, nor the batch from reaching its index rebuild.
C8_FailureIsolation ==
    /\ [](\A t \in Timers :
            /\ tstate[t] \in {"loop", "move_copy"} => Len(log[t]) < Len(events[t])
            /\ (tstate[t] = "index" /\ mirror_to) => Len(log[t]) = Len(events[t]))
    /\ [][\A t \in Timers :
            (tstate[t] \in {"loop", "move_copy"} /\ tstate'[t] # tstate[t]) =>
                /\ tstate'[t] \in {"loop", "move_copy", "index"}
                /\ events'[t] = events[t]
                /\ \/ log'[t] = log[t] /\ tstate'[t] = "move_copy"
                   \/ Len(log'[t]) = Len(log[t]) + 1]_vars

\* C8 witness: the first action of a batch failed, the second was applied
\* with success, and the batch is inside write_index.
C8_Witness ==
    \E t \in Timers :
        /\ InWriteIndex(t)
        /\ Len(log[t]) = 2
        /\ Failure(log[t][1])
        /\ log[t][2] \in {"copied", "deleted", "moved_copied"}

Tracked(p) == should_handle(p, mirror_to)

\* The one event so far was a rename from tracked a to tracked b, and
\* callback t holds it as its batch.
SingleMove(t, a, b) ==
    /\ nOps = 1
    /\ Tracked(a)
    /\ Tracked(b)
    /\ events[t] = <<Item(a, "moved", b)>>

\* C9: after a single rename from tracked a to tracked b, the old mirror
\* entry is gone before the new one is copied, and once the copy succeeded
\* the mirror has an entry for b and none for a.
C9_MoveTracked ==
    \A t \in Timers : \A a \in Paths, b \in Paths :
        SingleMove(t, a, b) =>
            /\ tstate[t] = "move_copy" => a \notin mirror
            /\ log[t] = <<"moved_copied">> => (b \in mirror /\ a \notin mirror)

\* C9 witness: the batch of a single rename a/x.md -> a/w.md has been
\* applied and the copy succeeded.
C9_Witness ==
    \E t \in Timers :
        /\ SingleMove(t, PathA, PathB)
        /\ log[t] = <<"moved_copied">>

\* The call of _queue_event the claim requires for a Moved event.
MoveCall(ev) ==
    IF Tracked(ev.src) /\ Tracked(ev.dest) THEN Call("moved", ev.src, ev.dest)
    ELSE IF Tracked(ev.dest) THEN Call("created", ev.dest, None)
    ELSE IF Tracked(ev.src) THEN Call("deleted", ev.src, None)
    ELSE NoArgs

\* The step in which the observer thread runs on_moved.
MovedStep ==
    /\ opc = "idle"
    /\ rawQueue # <<>>
    /\ Head(rawQueue).kind = "moved"
    /\ rawQueue' = Tail(rawQueue)

\* C10: a Moved event is recorded as Moved(dest) only when both endpoints
\* are tracked, as Created at the destination when only the destination is,
\* as Deleted at the source when only the source is; and no path that is not
\* tracked gets a mirror entry.
C10_MoveClassification ==
    /\ [][MovedStep => oargs' = MoveCall(Head(rawQueue))]_vars
    /\ [](\A p \in mirror : Tracked(p))

\* The step in which the observer thread runs the callback of the raw event
\* at the head of its queue.
DispatchStep == opc = "idle" /\ rawQueue # <<>> /\ rawQueue' = Tail(rawQueue)

\* The raw event names a path inside the mirror directory.
MirrorEvent(ev) == mirror_to /\ (InsideMirror(ev.src) \/ InsideMirror(ev.dest))

\* C11: a raw event of any kind whose source or destination lies inside the
\* mirror directory is dropped by its callback: it adds no entry to the
\* pending map and arms no timer, so that no batch and no index rebuild
\* follow from it.
C11_MirrorSelfExclusion ==
    [][(DispatchStep /\ MirrorEvent(Head(rawQueue))) =>
            /\ opc' = "idle"
            /\ oargs' = NoArgs
            /\ UNCHANGED <<pending, debounce_timer, tstate>>]_vars

\* The step in which the observer thread runs on_created or on_modified.
LiveFilterStep ==
    DispatchStep /\ Head(rawQueue).kind \in {"created", "modified"}

\* A directory walk of the watched root with the handler's settings yields
\* the path p when the file exists.
WalkYields(p) == p \in walk_md_files({p}, mirror_to)

\* C12: a Created or Modified event is accepted only for a path that a walk
\* of the watched root with the same settings yields; a .md file under a
\* directory of the skip set, or under an excluded hidden directory, is not
\* queued by such an event and gets no mirror entry.
C12_LiveFilterAgreesWithWalk ==
    /\ [][LiveFilterStep =>
            (oargs' # NoArgs => WalkYields(Head(rawQueue).src))]_vars
    /\ [](\A p \in mirror : \A i \in 1..(Len(p) - 1) : p[i] \notin SKIP_DIRS)

\* A tracked file of the watched root: a .md file that lies under no excluded
\* hidden directory, under no directory of the skip set and not under the
\* mirror when exclude_mirror is set.
IsTracked(p, exclude_mirror) ==
    /\ is_md_file(p)
    /\ \A i \in 1..(Len(p) - 1) :
          /\ p[i] \notin SKIP_DIRS
          /\ ~(StartsWithDot(p[i]) /\ ~StartsWithClaude(p[i]))
    /\ ~(exclude_mirror /\ InsideMirror(p))

TrackedFiles(files, exclude_mirror) == {p \in files : IsTracked(p, exclude_mirror)}

\* C13: in every settled state (nothing queued, no pending entry, no timer
\* armed, no batch running) in which no copy was skipped or failed (and no
\* removal either), the entries of the mirror are exactly the tracked files
\* of the watched root.
C13_MirrorInvariant ==
    (Settled /\ mirror_to /\ ~mirror_failed) => mirror = TrackedFiles(srcFiles, TRUE)

\* The list of the paths of `files` in ascending order of their posix
\* strings, each once.
SortedList(files) ==
    LET Keep(p) == p \in files
    IN  SelectSeq(PosixOrder, Keep)

\* C14: in every settled state whose last rebuild succeeded, the index
\* document is the ascending, duplicate-free list of the tracked files of
\* the index root (the mirror when there is one, else the watched root).
C14_IndexCompleteness ==
    (Settled /\ idx_result = "ok") =>
        outFile = Doc(SortedList(TrackedFiles(IndexRootFiles, FALSE)))

\* The step in which callback t ends a write_index whose walk of the index
\* root was partial.
PartialRebuildEnds(t) ==
    /\ InWriteIndex(t)
    /\ scan[t] = "partial"
    /\ tstate'[t] = "finished"

\* C15: a rebuild whose scan of the index root failed or was partial (a
\* directory that could not be listed, or the root missing) does not replace
\* the index document.
C15_PartialScanKeepsIndex ==
    [][\A t \in Timers : PartialRebuildEnds(t) => outFile' = outFile]_vars

\* C16: copy_file_with_retry returns True or False for every outcome of
\* every file-system step it performs; no exception leaves it.
C16_CopyNeverRaises == cp.result # "raised"

\* The source file is unstable or locked on the first k attempts and stable
\* and copyable on attempt k + 1 (the destination directory can be made).
LateStable(k) ==
    /\ cp.mkdir
    /\ \A i \in 1..k : cp.conds[i] \in {"unstable", "probe_error", "locked"}
    /\ cp.conds[k + 1] = "ok"

\* The step of an attempt whose stability probe fails.
UnstableAttempt ==
    /\ cp.result = "none"
    /\ cp.attempt \in 1..COPY_RETRY_ATTEMPTS
    /\ cp.conds[cp.attempt] \in {"unstable", "probe_error"}
    /\ cp' # cp

\* C17: when the source file is unstable or locked on the first k attempts,
\* k smaller than the retry count, and stable and copyable on attempt k + 1,
\* the copy is made on that attempt and the function returns True; an
\* unstable probe uses up its attempt and is a failure only when it was the
\* last one.
C17_LockTolerance ==
    /\ [](\A k \in 0..(COPY_RETRY_ATTEMPTS - 1) :
            (LateStable(k) /\ cp.result # "none") =>
                (cp.result = "copied" /\ cp.attempt = k + 1))
    /\ [][UnstableAttempt =>
            IF cp.attempt < COPY_RETRY_ATTEMPTS
            THEN cp'.result = "none" /\ cp'.attempt = cp.attempt + 1
            ELSE cp'.result = "failed"]_vars

\* C17 witness: the copy was made on the last attempt, after an unstable
\* probe (sizes differ) on the first attempt and a locked file on another.
C17_Witness ==
    /\ cp.result = "copied"
    /\ cp.attempt = COPY_RETRY_ATTEMPTS
    /\ cp.conds[1] = "unstable"
    /\ \E i \in 2..(COPY_RETRY_ATTEMPTS - 1) : cp.conds[i] = "locked"

\* C18: when the watched root exists at startup, no I/O error of the initial
\* sync, the prune or the initial index write ends the session before it is
\* live; only a missing root does, with its own exit.
C18_OnlyMissingRootFatal ==
    /\ root_exists => session # "Failed"
    /\ ~root_exists => session \in {"Initializing", "Exited"}

\* The order of the phases of a session.
PhaseOrder ==
    {<<"Initializing", "InitialSync">>, <<"InitialSync", "InitialPrune">>,
     <<"InitialSync", "InitialIndex">>, <<"InitialPrune", "InitialIndex">>,
     <<"InitialIndex", "Live">>}

\* C19: a session goes through Initializing, InitialSync, InitialPrune (only
\* with --prune and a mirror, and then always), InitialIndex and Live in
\* this order, leaving the order only when startup ends with an error; the
\* handler is attached (Live) only after the initial index was written, and
\* Live is left only by interruption.
C19_StartupOrdering ==
    /\ [][session' # session =>
            \/ /\ <<session, session'>> \in PhaseOrder
               /\ session' = "InitialPrune" => (prune /\ mirror_to)
               /\ (session = "InitialSync" /\ session' = "InitialIndex") =>
                      ~(prune /\ mirror_to)
               /\ session' = "Live" =>
                      (idx_result \in {"ok", "partial"} /\ outFile.kind = "doc")
            \/ session # "Live" /\ session' \in {"Exited", "Failed"}
            \/ session = "Live" /\ session' = "Stopped"]_vars
    /\ [](session = "Live" => (sync_todo = <<>> /\ outFile.kind = "doc"))

\* C19 witness: a session with --prune and a mirror that held an entry is
\* live.
C19_Witness ==
    /\ session = "Live"
    /\ prune
    /\ mirror_to
    /\ start_mirror # {}

\* The initial sync has ended without a skipped or failed copy, starting
\* from an empty mirror.
SyncedFromEmpty ==
    /\ mirror_to
    /\ start_mirror = {}
    /\ ~mirror_failed
    /\ session \in {"InitialPrune", "InitialIndex", "Live", "Stopped"}

\* C20: starting from an empty mirror with every copy succeeding, after the
\* initial sync the mirror holds exactly the tracked files of the watched
\* root, and the initial index, once written from a complete scan, lists
\* exactly these paths in ascending order.
C20_InitialSyncPostcondition ==
    SyncedFromEmpty =>
        /\ mirror = TrackedFiles(srcFiles, TRUE)
        /\ idx_result = "ok" =>
              outFile = Doc(SortedList(TrackedFiles(srcFiles, TRUE)))

\* C20 witness: the tree of the end-to-end scenario plus a file under
\* node_modules; the session is live, the mirror holds a/x.md only and the
\* index lists it.
C20_Witness ==
    /\ SyncedFromEmpty
    /\ session = "Live"
    /\ idx_result = "ok"
    /\ srcFiles = {PathA, PathH, PathZ, PathS}
    /\ mirror = {PathA}
    /\ outFile = Doc(<<PathA>>)

\* A step of the observer thread: an event callback, _queue_event or
\* _schedule_processing.
ObserverStep == opc' # opc \/ (DispatchStep /\ opc' = "idle")

\* C22: the lock is held only inside the three short critical sections
\* (never by a callback that is applying its batch or writing the index),
\* the steps of the event callbacks write neither the mirror nor the index
\* files, and while a batch is being applied the lock is free or about to be
\* released, so that an event can be ingested.
C22_IngestionNeverWaitsOnIO ==
    /\ [](\A t \in Timers :
            /\ lock = t => tstate[t] = "drain_held"
            /\ (InBatch(t) \/ InWriteIndex(t)) => lock # t)
    /\ [](lock = ObsThread => opc \in {"queue_held", "schedule_held"})
    /\ [][ObserverStep => UNCHANGED <<mirror, tmpFile, outFile>>]_vars

\* C22 witness: an event is being ingested (the observer thread holds the
\* lock in _queue_event) while a callback is applying a batch.
C22_Witness ==
    /\ lock = ObsThread
    /\ opc = "queue_held"
    /\ \E t \in Timers : tstate[t] \in {"loop", "move_copy"}

\* The step in which callback t applies the action of its batch it is at.
ActionStep(t) ==
    /\ tstate[t] = "loop"
    /\ Len(log'[t]) = Len(log[t]) + 1

\* C23: a Created or Modified action whose copy succeeds for a file that
\* already has its mirror entry leaves the mirror as it is, and so does a
\* Deleted action for a path without mirror entry, which is not an error;
\* and the list of a complete rebuild is a function of the index root alone,
\* so that a second application leaves mirror and index as the first did.
C23_ActionIdempotence ==
    /\ [][\A t \in Timers : ActionStep(t) =>
            LET key == Current(t).key
                outcome == log'[t][Len(log'[t])]
            IN  /\ (Current(t).type \in {"created", "modified"}
                    /\ outcome = "copied" /\ key \in mirror) => mirror' = mirror
                /\ (Current(t).type = "deleted" /\ key \notin mirror) =>
                      (mirror' = mirror /\ outcome = "deleted")]_vars
    /\ [][\A t \in Timers :
            (tstate[t] = "index" /\ tstate'[t] = "index_open"
             /\ scan'[t] = "complete") =>
                md_paths'[t] = SortedList(TrackedFiles(IndexRootFiles, FALSE))]_vars

\* C23 witness: a/x.md was copied a second time, in a second batch, and the
\* mirror is as it was after the first; the index is being rebuilt.
C23_Witness ==
    /\ nCopy[PathA] = 2
    /\ nBatches = 2
    /\ ~mirror_failed
    /\ mirror = {PathA}
    /\ \E t \in Timers : tstate[t] = "index_open" /\ md_paths[t] = <<PathA>>

\* The step in which callback t takes a non-empty batch from the pending
\* map.
DrainStep(t) ==
    /\ tstate[t] = "drain_held"
    /\ tstate'[t] # "drain_held"
    /\ pending # <<>>

\* The last accepted event has been put into the pending map.
LastEventQueued == opc \notin {"queue_wait", "queue_held"}

\* C24: a non-empty batch is taken from the pending map only when at least
\* the debounce delay has passed since the last event that was put into the
\* map.
C24_QuietWindowDrain ==
    [][\A t \in Timers :
         (DrainStep(t) /\ LastEventQueued) => sinceLast >= DEBOUNCE_SECONDS]_vars

\* The step in which a Deleted action of callback t removes a mirror entry.
DeleteRemoves(t) ==
    /\ ActionStep(t)
    /\ Current(t).type = "deleted"
    /\ mirror' # mirror

\* The step in which callback t has applied the last action of its batch.
BatchApplied(t) ==
    /\ tstate[t] \in {"loop", "move_copy"}
    /\ tstate'[t] = "index"

\* C26: a Deleted action removes a mirror entry only when the source file
\* is absent from the watched tree at that time, and a batch whose actions
\* all succeeded does not end with a tracked file of its batch present in
\* the watched tree and missing in the mirror.
C26_DeleteOnlyWhenAbsent ==
    /\ [][\A t \in Timers :
            DeleteRemoves(t) => Current(t).key \notin srcFiles]_vars
    /\ [][\A t \in Timers :
            (BatchApplied(t) /\ \A i \in 1..Len(log'[t]) : ~Failure(log'[t][i])) =>
                \A i \in 1..Len(events[t]) :
                    (IsTracked(events[t][i].key, TRUE)
                     /\ events[t][i].key \in srcFiles) =>
                        events[t][i].key \in mirror']_vars

\* The pending map d schedules a copy of the file p: as the destination of
\* a pending move or as the path of a pending Created or Modified action.
SchedulesCopy(d, p) ==
    \E i \in 1..Len(d) :
        \/ d[i].type = "moved" /\ d[i].dest = p
        \/ d[i].type \in {"created", "modified"} /\ d[i].key = p

\* C27: when an event is merged into the pending map, the destination of
\* every pending move between tracked paths stays scheduled for a copy, also
\* when the event is for the source of the move and overwrites its entry;
\* and the batch that holds a move copies the destination when it exists.
C27_MoveDestinationKept ==
    /\ [][QueueStep =>
            \A i \in 1..Len(pending) :
                (/\ mirror_to
                 /\ pending[i].type = "moved"
                 /\ Tracked(pending[i].key)
                 /\ Tracked(pending[i].dest)
                 /\ pending[i].dest \in srcFiles) =>
                    SchedulesCopy(pending', pending[i].dest)]_vars
    /\ [][\A t \in Timers :
            (/\ tstate[t] = "loop"
             /\ Current(t).type = "moved"
             /\ Current(t).dest \in srcFiles
             /\ ActionStep(t)) => log'[t][Len(log'[t])] = "raised"]_vars

\* C25: whatever the source file does, copy_file_with_retry ends (it
\* returns or raises) after at most COPY_RETRY_ATTEMPTS iterations of its
\* loop, and it returns True exactly when the iteration it ended in found
\* the source existing and stable and its byte copy succeeded.
C25_BoundedRetry ==
    /\ [](cp.attempt <= COPY_RETRY_ATTEMPTS)
    /\ [](cp.result = "copied" <=>
            (cp.result # "none" /\ cp.attempt >= 1 /\ cp.conds[cp.attempt] = "ok"))
    /\ <>(cp.result # "none")

\* C25 witness: the source was locked on every attempt; the function gave up
\* after the last one.
C25_Witness ==
    /\ cp.result = "failed"
    /\ cp.attempt = COPY_RETRY_ATTEMPTS
    /\ \A i \in 1..COPY_RETRY_ATTEMPTS : cp.conds[i] = "locked"

\* The step in which callback t runs the body of `with self._lock` in
\* _process_pending.
TakeStep(t) == tstate[t] = "drain_held" /\ tstate'[t] # "drain_held"

\* No timer is waiting to expire or on its way to drain the pending map.
NoLiveTimer == \A t \in Timers : tstate[t] \notin {"armed", "drain_wait", "drain_held"}

\* C21: an accepted event is held by the observer thread until it is put
\* into the pending map; the pending map changes only when an event is put
\* into it or when one callback takes all of it as its batch and leaves it
\* empty; a batch never changes between the step that takes it and the end
\* of its callback, so that an event put into the map while a batch is
\* applied stays in the map for a later batch; and when the events have
\* stopped arriving, the pending map is eventually empty for good with no
\* timer live.
C21_AtomicDrainWithoutLoss ==
    /\ [](opc \in {"queue_wait", "queue_held"} =>
            oargs # NoArgs /\ oargs.src \in accepted)
    /\ [][pending' # pending =>
            \/ QueueStep /\ Keys(pending') = Keys(pending) \cup {oargs.src}
            \/ \E t \in Timers :
                  /\ TakeStep(t)
                  /\ events[t] = <<>>
                  /\ events'[t] = pending
                  /\ pending' = <<>>
                  /\ \A u \in Timers \ {t} : events'[u] = events[u]]_vars
    /\ [][\A t \in Timers :
            events'[t] # events[t] =>
                \/ TakeStep(t) /\ events'[t] = pending /\ pending' = <<>>
                \/ events'[t] = <<>> /\ tstate'[t] = "finished"]_vars
    /\ [][QueueStep =>
            /\ HasKey(pending', oargs.src)
            /\ \A t \in Timers : events'[t] = events[t]]_vars
    /\ <>[](pending = <<>> /\ NoLiveTimer)

\* C21 witness: an event was put into the pending map while a callback was
\* applying its batch; the batch is as it was taken.
C21_Witness ==
    /\ opc = "schedule_wait"
    /\ HasKey(pending, oargs.src)
    /\ \E t \in Timers :
          /\ InBatch(t)
          /\ events[t] # <<>>
          /\ ~HasKey(events[t], oargs.src)

====
